---- MODULE Spec2Model ----
(***************************************************************************)
(* A model of opal_fetcher_ceph/provider.py: the NginxCephFetchProvider    *)
(* plugin.  fetch_tar_file_data is modelled statement by statement, one    *)
(* action per statement, for a bounded number of concurrent invocations;   *)
(* the provider's lifecycle methods (__aenter__, __aexit__, _fetch_,       *)
(* _process_) are modelled one action per method.                          *)
(*                                                                         *)
(* Byte strings are sequences of one-character strings.  A response body   *)
(* is a gzip-tar archive described by its members, its length in bytes and *)
(* the number of leading bytes the tar reader has to decompress to list    *)
(* and read the members; what the buffer holds is a sequence of chunks of  *)
(* that body.                                                              *)
(***************************************************************************)
EXTENDS Integers, Sequences, FiniteSets, TLC

(***************************************************************************)
(* Python values                                                           *)
(***************************************************************************)
None == [tag |-> "None", v |-> <<>>]
Bytes(b) == [tag |-> "bytes", v |-> b]
Coroutine(url) == [tag |-> "coroutine", v |-> <<url>>]
Self == [tag |-> "self", v |-> <<>>]
Parsed(j) == [tag |-> "json", v |-> <<j>>]

(***************************************************************************)
(* JSON values and json.dumps / json.loads over the alphabet used here:    *)
(* integers, strings of letters, arrays, objects, blanks.                  *)
(***************************************************************************)
JInt(n) == [t |-> "int", e |-> <<n>>]
JStr(cs) == [t |-> "str", e |-> cs]
JArr(xs) == [t |-> "arr", e |-> xs]
JObj(f) == [t |-> "obj", e |-> f]

Digits == <<"0", "1", "2", "3", "4", "5", "6", "7", "8", "9">>
Letters == {"a", "b", "k"}
IsDigit(c) == \E d \in 1..10 : Digits[d] = c
DigitVal(c) == (CHOOSE d \in 1..10 : Digits[d] = c) - 1

RECURSIVE NatDumps(_)
NatDumps(n) == IF n < 10 THEN <<Digits[n + 1]>>
               ELSE NatDumps(n \div 10) \o <<Digits[(n % 10) + 1]>>

RECURSIVE JsonDumps(_)
RECURSIVE DumpsItems(_)
RECURSIVE DumpsPairs(_, _)
DumpsItems(xs) ==
    IF Len(xs) = 0 THEN <<>>
    ELSE IF Len(xs) = 1 THEN JsonDumps(xs[1])
    ELSE JsonDumps(xs[1]) \o <<",", " ">> \o DumpsItems(Tail(xs))
DumpsPairs(f, keys) ==
    IF keys = {} THEN <<>>
    ELSE LET k == CHOOSE x \in keys : TRUE
             one == <<"\"">> \o k \o <<"\"", ":", " ">> \o JsonDumps(f[k])
         IN IF keys = {k} THEN one
            ELSE one \o <<",", " ">> \o DumpsPairs(f, keys \ {k})
JsonDumps(j) ==
    CASE j.t = "int" -> IF j.e[1] < 0 THEN <<"-">> \o NatDumps(0 - j.e[1])
                        ELSE NatDumps(j.e[1])
      [] j.t = "str" -> <<"\"">> \o j.e \o <<"\"">>
      [] j.t = "arr" -> <<"[">> \o DumpsItems(j.e) \o <<"]">>
      [] j.t = "obj" -> <<"{">> \o DumpsPairs(j.e, DOMAIN j.e) \o <<"}">>

PFail == [ok |-> FALSE, val |-> JInt(0), next |-> 0]
POk(val, next) == [ok |-> TRUE, val |-> val, next |-> next]
At(s, i) == IF i >= 1 /\ i <= Len(s) THEN s[i] ELSE "EOF"

RECURSIVE SkipWs(_, _)
SkipWs(s, i) == IF At(s, i) = " " THEN SkipWs(s, i + 1) ELSE i

RECURSIVE ScanDigits(_, _, _)
ScanDigits(s, i, acc) ==
    IF IsDigit(At(s, i)) THEN ScanDigits(s, i + 1, acc * 10 + DigitVal(s[i]))
    ELSE POk(JInt(acc), i)

ParseNat(s, i) ==
    IF At(s, i) = "0" THEN POk(JInt(0), i + 1)
    ELSE IF IsDigit(At(s, i)) THEN ScanDigits(s, i, 0)
    ELSE PFail

ParseInt(s, i) ==
    IF At(s, i) = "-"
    THEN LET r == ParseNat(s, i + 1)
         IN IF r.ok THEN POk(JInt(0 - r.val.e[1]), r.next) ELSE PFail
    ELSE ParseNat(s, i)

RECURSIVE ScanString(_, _, _)
ScanString(s, i, acc) ==
    IF At(s, i) = "\"" THEN POk(JStr(acc), i + 1)
    ELSE IF At(s, i) \in Letters THEN ScanString(s, i + 1, Append(acc, s[i]))
    ELSE PFail

ParseString(s, i) == IF At(s, i) = "\"" THEN ScanString(s, i + 1, <<>>) ELSE PFail

RECURSIVE ParseValue(_, _)
RECURSIVE ParseItems(_, _, _)
RECURSIVE ParsePairs(_, _, _)
ParseItems(s, i, acc) ==
    LET r == ParseValue(s, SkipWs(s, i))
    IN IF ~r.ok THEN PFail
       ELSE LET j == SkipWs(s, r.next)
            IN IF At(s, j) = "," THEN ParseItems(s, j + 1, Append(acc, r.val))
               ELSE IF At(s, j) = "]" THEN POk(JArr(Append(acc, r.val)), j + 1)
               ELSE PFail
ParsePairs(s, i, acc) ==
    LET k == ParseString(s, SkipWs(s, i))
    IN IF ~k.ok THEN PFail
       ELSE LET c == SkipWs(s, k.next)
            IN IF At(s, c) # ":" THEN PFail
               ELSE LET r == ParseValue(s, SkipWs(s, c + 1))
                    IN IF ~r.ok THEN PFail
                       ELSE LET j == SkipWs(s, r.next)
                                f == (k.val.e :> r.val) @@ acc
                            IN IF At(s, j) = "," THEN ParsePairs(s, j + 1, f)
                               ELSE IF At(s, j) = "}" THEN POk(JObj(f), j + 1)
                               ELSE PFail
ParseValue(s, i) ==
    CASE At(s, i) = "[" ->
            IF At(s, SkipWs(s, i + 1)) = "]"
            THEN POk(JArr(<<>>), SkipWs(s, i + 1) + 1)
            ELSE ParseItems(s, i + 1, <<>>)
      [] At(s, i) = "{" ->
            IF At(s, SkipWs(s, i + 1)) = "}"
            THEN POk(JObj(<<>>), SkipWs(s, i + 1) + 1)
            ELSE ParsePairs(s, i + 1, <<>>)
      [] At(s, i) = "\"" -> ParseString(s, i)
      [] OTHER -> ParseInt(s, i)

\* json.loads(data): the parsed value, or the exception it raises.
JsonLoads(data) ==
    IF data.tag # "bytes" THEN [exc |-> "TypeError", val |-> None]
    ELSE LET r == ParseValue(data.v, SkipWs(data.v, 1))
         IN IF r.ok /\ SkipWs(data.v, r.next) = Len(data.v) + 1
            THEN [exc |-> "", val |-> Parsed(r.val)]
            ELSE [exc |-> "JSONDecodeError", val |-> None]

(***************************************************************************)
(* Archives.  A member is a name, a type and its content; a body is what a *)
(* URL serves: whether it is a gzip-tar stream at all, its members in      *)
(* stored order, its length in bytes, and how many leading bytes the tar   *)
(* reader must have to read the first header (needOpen) and to walk every  *)
(* header up to the end-of-archive block (needAll).  The gzip trailer and  *)
(* the compressed zero padding after the end-of-archive block are never    *)
(* read, which is why needAll may be less than size.                       *)
(***************************************************************************)
Member(name, type, data) == [name |-> name, type |-> type, data |-> data]
Body(gz, members, size, needOpen, needAll) ==
    [gz |-> gz, members |-> members, size |-> size,
     needOpen |-> needOpen, needAll |-> needAll]

DotJson == <<".", "j", "s", "o", "n">>
DataJson == <<"d">> \o DotJson
ExtraJson == <<"e">> \o DotJson
ConfJson == <<"c">> \o DotJson
ReadmeTxt == <<"r", ".", "t", "x", "t">>
DataJsonl == DataJson \o <<"l">>

\* str.endswith
EndsWith(name, suffix) ==
    /\ Len(name) >= Len(suffix)
    /\ SubSeq(name, Len(name) - Len(suffix) + 1, Len(name)) = suffix

\* The JSON values whose encodings the round-trip archives store.
ValueA == JObj(<<"a">> :> JInt(1))
ValueB == JArr(<<JInt(1), JInt(20)>>)
JsonValues == {ValueA, ValueB}

\* A freshly built archive holding json.dumps(v) in one '.json' member.
Archive(v, size, needAll) ==
    Body(TRUE, <<Member(DataJson, "file", JsonDumps(v))>>, size, 60, needAll)

\* What each URL serves.  1: an empty response; 2: not gzip; 3: the one-member
\* archive {"a":1}; 4: a '.txt' member before two '.json' members; 5: no
\* '.json' member; 6: an archive without members; 7: a directory named
\* '*.json'; 8: the same '.json' name stored twice; 9: a member that is not
\* JSON; 10-12: round-trip archives in one read, in one read and a few bytes
\* of padding, and in several reads.
World ==
    <<Body(FALSE, <<>>, 0, 0, 0),
      Body(FALSE, <<>>, 14, 0, 0),
      Body(TRUE, <<Member(DataJson, "file", <<"{", "\"", "a", "\"", ":", "1", "}">>)>>,
           150, 60, 140),
      Body(TRUE, <<Member(ReadmeTxt, "file", <<"h", "i">>),
                   Member(DataJson, "file", <<"[", "1", "]">>),
                   Member(ExtraJson, "file", <<"2">>)>>, 150, 60, 140),
      Body(TRUE, <<Member(ReadmeTxt, "file", <<"h", "i">>),
                   Member(DataJsonl, "file", <<"3">>)>>, 150, 60, 140),
      Body(TRUE, <<>>, 45, 30, 30),
      Body(TRUE, <<Member(ConfJson, "dir", <<>>)>>, 150, 60, 140),
      Body(TRUE, <<Member(DataJson, "file", <<"1">>),
                   Member(ReadmeTxt, "file", <<"h", "i">>),
                   Member(DataJson, "file", <<"2">>)>>, 150, 60, 140),
      Body(TRUE, <<Member(DataJson, "file", <<"{", "\"", "a", "\"", ":">>)>>,
           150, 60, 140),
      Archive(ValueA, 150, 140),
      Archive(ValueB, 16390, 16380),
      Archive(ValueA, 40000, 39900)>>

URLs == DOMAIN World
Served(u) == World[u]

(***************************************************************************)
(* The library calls fetch_tar_file_data makes, on a buffer that holds the *)
(* first n bytes of body b.                                                *)
(***************************************************************************)
\* The bytes a buffer holds: its chunks are consecutive pieces of the body,
\* so it holds the body's first BufLen bytes.
RECURSIVE BufLen(_)
BufLen(data) == IF data = <<>> THEN 0 ELSE Head(data).n + BufLen(Tail(data))

\* ftpstream.read(amt): the next amt bytes, fewer at the end, none after it.
StreamRead(b, pos, amt) ==
    [from |-> pos, n |-> IF b.size - pos < amt THEN b.size - pos ELSE amt]

\* tarfile.open(fileobj=tmpfile, mode="r:gz"): "" or the exception raised.
TarOpen(b, n) ==
    IF ~b.gz THEN "ReadError"
    ELSE IF n < b.needOpen THEN "EOFError"
    ELSE ""

\* tfile.getnames(): the stored names in stored order, or the exception.
GetNames(b, n) ==
    IF n < b.needAll THEN [exc |-> "EOFError", names |-> <<>>]
    ELSE [exc |-> "", names |-> [k \in DOMAIN b.members |-> b.members[k].name]]

\* [filename for filename in names if filename.endswith('.json')]
RECURSIVE JsonNames(_)
JsonNames(names) ==
    IF names = <<>> THEN <<>>
    ELSE IF EndsWith(Head(names), DotJson)
         THEN <<Head(names)>> \o JsonNames(Tail(names))
         ELSE JsonNames(Tail(names))

\* tfile.extractfile(name): getmember looks the name up from the last
\* stored member backwards; a member that is no regular file gives None.
ExtractFile(b, name) ==
    LET k == CHOOSE j \in DOMAIN b.members :
                 /\ b.members[j].name = name
                 /\ \A l \in DOMAIN b.members :
                        b.members[l].name = name => l <= j
    IN IF b.members[k].type = "file" THEN Bytes(b.members[k].data) ELSE None

(***************************************************************************)
(* fetch_tar_file_data, one action per statement, for calls 1..NCalls.     *)
(***************************************************************************)
NCalls == 2
Calls == 1..NCalls
ChunkSize == 16384

VARIABLES
    pc,                   \* each call's position
    url,                  \* each call's argument
    ftpstream,            \* the network stream: open and close calls, position, end seen
    s,                    \* the last chunk read
    tmpfile,              \* the in-memory buffer: open and close calls, chunks written, position
    tfile,                \* the archive reader: open and close calls
    tfile_data,           \* the selected member names
    tfile_extract1,       \* the extracted member's file object, or None
    tfile_extract1_text,  \* the member's content
    ret,                  \* the value returned
    exc,                  \* the exception raised, "" when none
    processed             \* what _process_ made of the value returned

callVars == <<pc, url, ftpstream, s, tmpfile, tfile, tfile_data,
              tfile_extract1, tfile_extract1_text, ret, exc, processed>>

VARIABLES
    event_url,       \* self._event.url, which the base class also keeps as self._url
    event_config,    \* self._event.config: "None" or the kind of config object
    attrs,           \* the instance attributes that have been assigned
    history,         \* the methods the host has called, in order
    log,             \* the levels of the log records written
    coroutines,      \* fetch_tar_file_data coroutine objects created
    aenter_result,   \* the last __aenter__: called, exception, value
    aexit_result,    \* the last __aexit__
    fetch_result,    \* the last _fetch_
    process_result   \* the last _process_

providerVars == <<event_url, event_config, attrs, history, log, coroutines,
                  aenter_result, aexit_result, fetch_result, process_result>>

NoStream == [opens |-> 0, closes |-> 0, pos |-> 0, eof |-> FALSE]
NoBuffer == [opens |-> 0, closes |-> 0, data |-> <<>>, pos |-> 0]
NoReader == [opens |-> 0, closes |-> 0]
NoChunk == [from |-> 0, n |-> 0]
NotProcessed == [exc |-> "", val |-> None]

CallsInit ==
    /\ pc = [i \in Calls |-> "urlopen"]
    /\ url \in [Calls -> URLs]
    /\ ftpstream = [i \in Calls |-> NoStream]
    /\ s = [i \in Calls |-> NoChunk]
    /\ tmpfile = [i \in Calls |-> NoBuffer]
    /\ tfile = [i \in Calls |-> NoReader]
    /\ tfile_data = [i \in Calls |-> <<>>]
    /\ tfile_extract1 = [i \in Calls |-> None]
    /\ tfile_extract1_text = [i \in Calls |-> None]
    /\ ret = [i \in Calls |-> None]
    /\ exc = [i \in Calls |-> ""]
    /\ processed = [i \in Calls |-> NotProcessed]

\* An exception leaves the function: nothing after the raising statement runs.
Raise(i, e) ==
    /\ exc' = [exc EXCEPT ![i] = e]
    /\ pc' = [pc EXCEPT ![i] = "raised"]

\* ftpstream = urllib.request.urlopen(url)
Urlopen(i) ==
    /\ pc[i] = "urlopen"
    /\ ftpstream' = [ftpstream EXCEPT ![i].opens = @ + 1]
    /\ pc' = [pc EXCEPT ![i] = "BytesIO"]
    /\ UNCHANGED <<providerVars, url, s, tmpfile, tfile, tfile_data, tfile_extract1,
                   tfile_extract1_text, ret, exc, processed>>

\* urlopen raises: the host is unreachable.
UrlopenFail(i) ==
    /\ pc[i] = "urlopen"
    /\ Raise(i, "URLError")
    /\ UNCHANGED <<providerVars, url, ftpstream, s, tmpfile, tfile, tfile_data, tfile_extract1,
                   tfile_extract1_text, ret, processed>>

\* tmpfile = BytesIO()
NewTmpfile(i) ==
    /\ pc[i] = "BytesIO"
    /\ tmpfile' = [tmpfile EXCEPT ![i].opens = @ + 1]
    /\ pc' = [pc EXCEPT ![i] = "read"]
    /\ UNCHANGED <<providerVars, url, ftpstream, s, tfile, tfile_data, tfile_extract1,
                   tfile_extract1_text, ret, exc, processed>>

\* s = ftpstream.read(16384)
Read(i) ==
    /\ pc[i] = "read"
    /\ LET c == StreamRead(Served(url[i]), ftpstream[i].pos, ChunkSize)
       IN /\ s' = [s EXCEPT ![i] = c]
          /\ ftpstream' = [ftpstream EXCEPT ![i].pos = @ + c.n,
                                            ![i].eof = (c.n = 0)]
    /\ pc' = [pc EXCEPT ![i] = "test"]
    /\ UNCHANGED <<providerVars, url, tmpfile, tfile, tfile_data, tfile_extract1,
                   tfile_extract1_text, ret, exc, processed>>

\* ftpstream.read raises: the connection breaks while reading.
ReadFail(i) ==
    /\ pc[i] = "read"
    /\ Raise(i, "ConnectionError")
    /\ UNCHANGED <<providerVars, url, ftpstream, s, tmpfile, tfile, tfile_data, tfile_extract1,
                   tfile_extract1_text, ret, processed>>

\* if not s: break -- and after the loop the function ends, returning None.
TestChunk(i) ==
    /\ pc[i] = "test"
    /\ IF s[i].n = 0
       THEN /\ pc' = [pc EXCEPT ![i] = "returned"]
            /\ ret' = [ret EXCEPT ![i] = None]
       ELSE /\ pc' = [pc EXCEPT ![i] = "write"]
            /\ UNCHANGED ret
    /\ UNCHANGED <<providerVars, url, ftpstream, s, tmpfile, tfile, tfile_data, tfile_extract1,
                   tfile_extract1_text, exc, processed>>

\* tmpfile.write(s), in the buffer of call i.  The position is the end of the
\* buffer whenever the statement is reached, so the chunk is appended.
WriteTo(j, i) ==
    /\ pc[i] = "write"
    /\ tmpfile' = [tmpfile EXCEPT ![j].data = Append(@, s[i]),
                                  ![j].pos = @ + s[i].n]
    /\ pc' = [pc EXCEPT ![i] = "close_stream"]
    /\ UNCHANGED <<providerVars, url, ftpstream, s, tfile, tfile_data, tfile_extract1,
                   tfile_extract1_text, ret, exc, processed>>

WriteShared(i) == WriteTo(1, i)

Write(i) == WriteTo(i, i)

\* ftpstream.close(), inside the loop.
CloseStream(i) ==
    /\ pc[i] = "close_stream"
    /\ ftpstream' = [ftpstream EXCEPT ![i].closes = @ + 1]
    /\ pc' = [pc EXCEPT ![i] = "open"]
    /\ UNCHANGED <<providerVars, url, s, tmpfile, tfile, tfile_data, tfile_extract1,
                   tfile_extract1_text, ret, exc, processed>>

\* tmpfile.seek(0); tfile = tarfile.open(fileobj=tmpfile, mode="r:gz")
OpenArchive(i) ==
    /\ pc[i] = "open"
    /\ tmpfile' = [tmpfile EXCEPT ![i].pos = 0]
    /\ LET e == TarOpen(Served(url[i]), BufLen(tmpfile[i].data))
       IN IF e = ""
          THEN /\ tfile' = [tfile EXCEPT ![i].opens = @ + 1]
               /\ pc' = [pc EXCEPT ![i] = "names"]
               /\ UNCHANGED exc
          ELSE /\ Raise(i, e)
               /\ UNCHANGED tfile
    /\ UNCHANGED <<providerVars, url, ftpstream, s, tfile_data, tfile_extract1,
                   tfile_extract1_text, ret, processed>>

\* tfile_data = [filename for filename in tfile.getnames()
\*               if filename.endswith('.json')]
SelectNames(i) ==
    /\ pc[i] = "names"
    /\ LET g == GetNames(Served(url[i]), BufLen(tmpfile[i].data))
       IN IF g.exc = ""
          THEN /\ tfile_data' = [tfile_data EXCEPT ![i] = JsonNames(g.names)]
               /\ pc' = [pc EXCEPT ![i] = "extract"]
               /\ UNCHANGED exc
          ELSE /\ Raise(i, g.exc)
               /\ UNCHANGED tfile_data
    /\ UNCHANGED <<providerVars, url, ftpstream, s, tmpfile, tfile, tfile_extract1,
                   tfile_extract1_text, ret, processed>>

\* tfile_extract1 = tfile.extractfile(tfile_data[0])
Extract(i) ==
    /\ pc[i] = "extract"
    /\ IF tfile_data[i] = <<>>
       THEN /\ Raise(i, "IndexError")
            /\ UNCHANGED tfile_extract1
       ELSE /\ tfile_extract1' =
                  [tfile_extract1 EXCEPT ![i] = ExtractFile(Served(url[i]), tfile_data[i][1])]
            /\ pc' = [pc EXCEPT ![i] = "read_member"]
            /\ UNCHANGED exc
    /\ UNCHANGED <<providerVars, url, ftpstream, s, tmpfile, tfile, tfile_data,
                   tfile_extract1_text, ret, processed>>

\* tfile_extract1_text = tfile_extract1.read()
ReadMember(i) ==
    /\ pc[i] = "read_member"
    /\ IF tfile_extract1[i] = None
       THEN /\ Raise(i, "AttributeError")
            /\ UNCHANGED tfile_extract1_text
       ELSE /\ tfile_extract1_text' = [tfile_extract1_text EXCEPT ![i] = tfile_extract1[i]]
            /\ pc' = [pc EXCEPT ![i] = "close_tfile"]
            /\ UNCHANGED exc
    /\ UNCHANGED <<providerVars, url, ftpstream, s, tmpfile, tfile, tfile_data,
                   tfile_extract1, ret, processed>>

\* tfile.close()
CloseTfile(i) ==
    /\ pc[i] = "close_tfile"
    /\ tfile' = [tfile EXCEPT ![i].closes = @ + 1]
    /\ pc' = [pc EXCEPT ![i] = "close_tmpfile"]
    /\ UNCHANGED <<providerVars, url, ftpstream, s, tmpfile, tfile_data, tfile_extract1,
                   tfile_extract1_text, ret, exc, processed>>

\* tmpfile.close(); return tfile_extract1_text
CloseTmpfileReturn(i) ==
    /\ pc[i] = "close_tmpfile"
    /\ tmpfile' = [tmpfile EXCEPT ![i].closes = @ + 1]
    /\ ret' = [ret EXCEPT ![i] = tfile_extract1_text[i]]
    /\ pc' = [pc EXCEPT ![i] = "returned"]
    /\ UNCHANGED <<providerVars, url, ftpstream, s, tfile, tfile_data, tfile_extract1,
                   tfile_extract1_text, exc, processed>>

\* _process_(data) on the value the call returned: json.loads(data)
ProcessReturned(i) ==
    /\ pc[i] = "returned"
    /\ processed' = [processed EXCEPT ![i] = JsonLoads(ret[i])]
    /\ pc' = [pc EXCEPT ![i] = "processed"]
    /\ UNCHANGED <<providerVars, url, ftpstream, s, tmpfile, tfile, tfile_data, tfile_extract1,
                   tfile_extract1_text, ret, exc>>

\* The statements of fetch_tar_file_data.
FetchStep(i) ==
    \/ Urlopen(i) \/ UrlopenFail(i) \/ NewTmpfile(i) \/ Read(i) \/ ReadFail(i)
    \/ TestChunk(i) \/ Write(i) \/ CloseStream(i) \/ OpenArchive(i)
    \/ SelectNames(i) \/ Extract(i) \/ ReadMember(i) \/ CloseTfile(i)
    \/ CloseTmpfileReturn(i)

\* fetch_tar_file_data(url) run from its first statement to its end with no
\* transport failure: what it returns or raises.
FetchTarFileData(b) ==
    LET c == StreamRead(b, 0, ChunkSize)
        e == TarOpen(b, c.n)
        g == GetNames(b, c.n)
        d == JsonNames(g.names)
        f == ExtractFile(b, d[1])
    IN IF c.n = 0 THEN [exc |-> "", val |-> None]
       ELSE IF e # "" THEN [exc |-> e, val |-> None]
       ELSE IF g.exc # "" THEN [exc |-> g.exc, val |-> None]
       ELSE IF d = <<>> THEN [exc |-> "IndexError", val |-> None]
       ELSE IF f = None THEN [exc |-> "AttributeError", val |-> None]
       ELSE [exc |-> "", val |-> f]

(***************************************************************************)
(* The provider object: its event, the instance attributes assigned so    *)
(* far, and what each lifecycle method did when the host last called it.   *)
(***************************************************************************)
MaxOps == 4

Str(cs) == [tag |-> "str", v |-> cs]
NotCalled == [called |-> FALSE, exc |-> "", val |-> None]
Returned(val) == [called |-> TRUE, exc |-> "", val |-> val]
Raised(e) == [called |-> TRUE, exc |-> e, val |-> None]

\* The URLs a fetch event may carry: none, the empty string, or a URL that
\* serves a body of the world.
EventURLs == {None, Str(<<>>)} \cup {Str(<<u>>) : u \in {3, 12}}

\* The fields of the event's config object.  NginxCephFetcherConfig declares
\* "fetcher" and inherits the rest from the host's FetcherConfig, which may
\* or may not declare connection_params.
ConfigFields(config) ==
    IF config = "with_connection_params" THEN {"fetcher", "connection_params"}
    ELSE {"fetcher"}

\* __init__: super().__init__(event) keeps the event and its url.
ProviderInit ==
    /\ event_url \in EventURLs
    /\ event_config \in {"None", "without_connection_params", "with_connection_params"}
    /\ attrs = {"_event", "_url"}
    /\ history = <<>>
    /\ log = <<>>
    /\ coroutines = 0
    /\ aenter_result = NotCalled
    /\ aexit_result = NotCalled
    /\ fetch_result = NotCalled
    /\ process_result = NotCalled

Called(m) ==
    /\ Len(history) < MaxOps
    /\ history' = Append(history, m)

\* __aenter__: reads self._event.config.connection_params, then
\* self._connection, assigns self._transaction and returns self.
AEnterOutcome(config, have) ==
    IF config = "None" THEN [exc |-> "AttributeError", assigned |-> {}]
    ELSE IF "connection_params" \notin ConfigFields(config)
         THEN [exc |-> "AttributeError", assigned |-> {}]
    ELSE IF "_connection" \notin have
         THEN [exc |-> "AttributeError", assigned |-> {}]
    ELSE [exc |-> "", assigned |-> {"_transaction"}]

AEnter ==
    /\ Called("__aenter__")
    /\ LET o == AEnterOutcome(event_config, attrs)
       IN /\ attrs' = attrs \cup o.assigned
          /\ aenter_result' = IF o.exc = "" THEN Returned(Self) ELSE Raised(o.exc)
    /\ UNCHANGED <<callVars, event_url, event_config, log, coroutines, aexit_result,
                   fetch_result, process_result>>

\* __aexit__: reads self._transaction, then self._connection.
AExitOutcome(have) ==
    IF "_transaction" \notin have THEN "AttributeError"
    ELSE IF "_connection" \notin have THEN "AttributeError"
    ELSE ""

AExit ==
    /\ Called("__aexit__")
    /\ aexit_result' = IF AExitOutcome(attrs) = "" THEN Returned(None)
                       ELSE Raised(AExitOutcome(attrs))
    /\ UNCHANGED <<callVars, event_url, event_config, attrs, log, coroutines, aenter_result,
                   fetch_result, process_result>>

UrlNeverMissing(u) == FALSE

\* if self._event.url is None
UrlMissing(u) == u = None

\* _fetch_: without a url, a warning and no result; otherwise a debug record
\* and the value of the call expression self.fetch_tar_file_data(self._url),
\* which is not awaited: calling an async function runs none of its body and
\* gives a coroutine object.
Fetch ==
    /\ Called("_fetch_")
    /\ IF UrlMissing(event_url)
       THEN /\ log' = Append(log, "warning")
            /\ fetch_result' = Returned(None)
            /\ UNCHANGED coroutines
       ELSE /\ log' = Append(log, "debug")
            /\ coroutines' = coroutines + 1
            /\ fetch_result' = Returned(Coroutine(event_url))
    /\ UNCHANGED <<callVars, event_url, event_config, attrs, aenter_result, aexit_result,
                   process_result>>

\* _process_(data), with the value _fetch_ returned: json.loads(data)
Process ==
    /\ Called("_process_")
    /\ fetch_result.called /\ fetch_result.exc = ""
    /\ LET r == JsonLoads(fetch_result.val)
       IN process_result' = IF r.exc = "" THEN Returned(r.val) ELSE Raised(r.exc)
    /\ UNCHANGED <<callVars, event_url, event_config, attrs, log, coroutines, aenter_result,
                   aexit_result, fetch_result>>

(***************************************************************************)
(* Specifications                                                          *)
(***************************************************************************)
vars == <<callVars, providerVars>>

\* The provider as constructed and not used.
ProviderIdle ==
    /\ event_url = None
    /\ event_config = "None"
    /\ attrs = {"_event", "_url"}
    /\ history = <<>>
    /\ log = <<>>
    /\ coroutines = 0
    /\ aenter_result = NotCalled
    /\ aexit_result = NotCalled
    /\ fetch_result = NotCalled
    /\ process_result = NotCalled

\* Calls of fetch_tar_file_data, each followed by _process_ on its result.
InitFetch == CallsInit /\ ProviderIdle

NextFetch == \E i \in Calls : FetchStep(i) \/ ProcessReturned(i)

SpecFetch == InitFetch /\ [][NextFetch]_vars

\* Concurrent calls for URLs that give each kind of outcome.
ConcurrentURLs == {1, 2, 4, 5, 7, 12}

InitConcurrent ==
    /\ CallsInit
    /\ \A i \in Calls : url[i] \in ConcurrentURLs
    /\ ProviderIdle

NextConcurrent == \E i \in Calls : FetchStep(i)

SpecConcurrent == InitConcurrent /\ [][NextConcurrent]_vars

\* The host's calls on one provider, in any order; no call of
\* fetch_tar_file_data is running.
InitProvider ==
    /\ CallsInit
    /\ \A i \in Calls : url[i] = 1
    /\ ProviderInit

NextProvider == AEnter \/ AExit \/ Fetch \/ Process

SpecProvider == InitProvider /\ [][NextProvider]_vars

(***************************************************************************)
(* Properties                                                              *)
(***************************************************************************)
\* Call i is over: it returned or raised.
CallEnded(i) == pc[i] \in {"returned", "raised", "processed"}

\* Call i is over and, if it returned, _process_ has run on its result.
Settled(i) == pc[i] \in {"raised", "processed"}

\* The transport failed: urlopen or read raised.
TransportFailed(i) == exc[i] \in {"URLError", "ConnectionError"}

\* The stored indices of the members whose name ends in '.json'.
JsonIndices(b) == {k \in DOMAIN b.members : EndsWith(b.members[k].name, DotJson)}
FirstJsonIndex(b) == CHOOSE k \in JsonIndices(b) : \A l \in JsonIndices(b) : k <= l

\* Body b is a gzip-tar archive that stores json.dumps(v) in a '.json' member.
Stores(b, v) ==
    /\ b.gz
    /\ \E k \in JsonIndices(b) : b.members[k].data = JsonDumps(v)

\* What belongs to call i.
CallState(i) ==
    <<pc[i], url[i], ftpstream[i], s[i], tmpfile[i], tfile[i], tfile_data[i],
      tfile_extract1[i], tfile_extract1_text[i], ret[i], exc[i]>>

\* C1: round trip -- for every JSON value v and every archive that stores v's
\* encoding in a '.json' member, whatever the archive's size, a call whose
\* transport does not fail returns bytes that _process_ parses to v.
C1_RoundTrip ==
    \A i \in Calls : \A v \in JsonValues :
        (Stores(Served(url[i]), v) /\ Settled(i) /\ ~TransportFailed(i))
            => /\ pc[i] = "processed"
               /\ processed[i] = [exc |-> "", val |-> Parsed(v)]

\* C2: fully buffered before parsing -- whenever the archive reader has been
\* opened, a read of the stream has returned end-of-stream and the buffer
\* holds every byte of the response body.
C2_FullyBuffered ==
    \A i \in Calls :
        tfile[i].opens > 0
            => /\ ftpstream[i].eof
               /\ BufLen(tmpfile[i].data) = Served(url[i]).size

\* C3: resource cleanup -- when a call is over, whatever its outcome, the
\* stream, the buffer and the archive reader have each been closed as often
\* as they were opened.
C3_Cleanup ==
    \A i \in Calls :
        CallEnded(i)
            => /\ ftpstream[i].closes = ftpstream[i].opens
               /\ tmpfile[i].closes = tmpfile[i].opens
               /\ tfile[i].closes = tfile[i].opens

\* C4: for an archive with no member whose name ends in '.json', a call
\* whose transport does not fail ends raising a format error, not an index
\* error.
C4_NoMatchIsFormatError ==
    \A i \in Calls :
        LET b == Served(url[i])
        IN (b.gz /\ JsonIndices(b) = {} /\ CallEnded(i) /\ ~TransportFailed(i))
               => pc[i] = "raised" /\ exc[i] = "FormatError"

\* C5: no failure is swallowed -- a call that ends without raising has
\* returned the bytes of a member; it never returns without a result.
C5_NoSilentReturn ==
    \A i \in Calls :
        pc[i] \in {"returned", "processed"} => ret[i].tag = "bytes"

\* C6: first match wins -- for every archive with a member whose name ends in
\* '.json', a call whose transport does not fail returns the content of the
\* member at the smallest stored index whose name ends in '.json'.
C6_FirstMatchWins ==
    \A i \in Calls :
        LET b == Served(url[i])
        IN (b.gz /\ JsonIndices(b) # {} /\ CallEnded(i) /\ ~TransportFailed(i))
               => /\ pc[i] \in {"returned", "processed"}
                  /\ ret[i] = Bytes(b.members[FirstJsonIndex(b)].data)

\* The outcome of _fetch_ on an event without a URL: no exception, no result,
\* a warning logged last, and fetch_tar_file_data not invoked.
SkippedFetch ==
    /\ coroutines = 0
    /\ fetch_result.called
           => /\ fetch_result = Returned(None)
              /\ log # <<>>
              /\ log[Len(log)] = "warning"

\* C7 as stated: missing-URL no-op -- when the event's URL is absent or
\* empty, _fetch_ never invokes fetch_tar_file_data, raises nothing and
\* returns no result after logging a warning.
C7_AbsentOrEmptyUrlSkips ==
    event_url \in {None, Str(<<>>)} => SkippedFetch

\* C7 as amended: when the event's URL is absent (None), _fetch_ never
\* invokes fetch_tar_file_data, raises nothing and returns no result after
\* logging a warning.
C7_AbsentUrlSkips ==
    event_url = None => SkippedFetch

C7_Witness ==
    /\ event_url = None
    /\ fetch_result.called
    /\ Len(log) >= 2

\* C8: for an event whose URL serves a well-formed archive with a '.json'
\* member, the value _fetch_ returns is the byte sequence of the selected
\* member, so that _process_ applied to it does not fail.
C8_FetchReturnsBytes ==
    \A u \in URLs :
        LET b == Served(u)
        IN (event_url = Str(<<u>>) /\ b.gz /\ JsonIndices(b) # {})
               => /\ fetch_result.called
                      => fetch_result = Returned(Bytes(b.members[FirstJsonIndex(b)].data))
                  /\ process_result.called => process_result.exc = ""

\* C9: no shared mutable state -- in every step of interleaved calls at most
\* one call's stream, buffer, archive reader and locals change, and a call
\* that ends without a transport failure ends as it does when run alone.
C9_Isolation ==
    [][/\ \A i, j \in Calls :
              i # j => \/ CallState(i)' = CallState(i)
                       \/ CallState(j)' = CallState(j)
       /\ \A i \in Calls :
              (pc'[i] \in {"returned", "raised"} /\ ~TransportFailed(i)')
                  => [exc |-> exc'[i], val |-> ret'[i]]
                         = FetchTarFileData(Served(url'[i]))]_vars

\* Call 1 has returned its archive's member while call 2, for another URL,
\* holds an open stream, buffer and archive reader.
C9_Witness ==
    /\ url[1] = 4 /\ pc[1] = "returned" /\ ret[1].tag = "bytes"
    /\ url[2] = 5 /\ pc[2] = "extract"
    /\ tfile[2].opens = 1 /\ tmpfile[2].data # <<>>

\* C10: the scoped-resource hooks are usable -- __aenter__ returns the
\* provider without error, __aexit__ completes without error, and neither
\* reads a connection or transaction attribute that was never assigned.
C10_HooksUsable ==
    /\ aenter_result.called => aenter_result = Returned(Self)
    /\ aexit_result.called => aexit_result.exc = ""

====
